---------------------------- MODULE Spec2Model ----------------------------
(* Model of scripts/openai_circuit_breaker_mcp.py: the single-threaded TCP
   listener (main), the command parse and dispatch, check_recent_costs and
   fetch_usage.  Byte strings and texts are sequences of integers (byte
   values, respectively Unicode code points).                              *)
EXTENDS Integers, Sequences, FiniteSets, TLC

(* ------------------------------ bounds -------------------------------- *)
MaxConns == 2          \* connections the clients open in one run
MaxAmount == 1         \* largest total_usage the upstream answers in a run
MaxClock == 4          \* last clock tick of a run
TicksPerDay == 2       \* clock ticks in one UTC day
MaxProbe == 5          \* largest |total_usage| of the bodies fetch_usage is tried on

(* ------------------------- program constants -------------------------- *)
BUFSIZE == 1024        \* conn.recv(1024)
BACKLOG == 5           \* s.listen(5)

NL == 10               \* b'\n'

(* ------------------------------ texts --------------------------------- *)
STATUS == <<83, 84, 65, 84, 85, 83>>                       \* "STATUS"
TrueReply == <<84, 82, 85, 69, 10>>                        \* "TRUE\n"
FalseReply == <<70, 65, 76, 83, 69, 10>>                   \* "FALSE\n"
ErrReply == <<69, 82, 82, 32, 85, 110, 107, 110, 111, 119, 110, 32,
              67, 111, 109, 109, 97, 110, 100, 10>>        \* "ERR Unknown Command\n"

(* The byte sequences a client sends before it shuts down or resets. *)
Messages ==
  { <<83, 84, 65, 84, 85, 83, 10>>,            \* "STATUS\n"
    <<115, 116, 97, 116, 117, 115, 10>>,       \* "status\n"
    <<32, 83, 116, 97, 116, 117, 115, 13, 10>>,\* " Status\r\n"
    <<83, 84, 65, 84, 85, 83>>,                \* "STATUS" then EOF
    <<83, 84, 65, 84, 85, 83, 10, 88>>,        \* "STATUS\nX"
    <<80, 73, 78, 71, 10>>,                    \* "PING\n"
    <<10>>,                                    \* "\n"
    <<>>,                                      \* nothing
    <<197, 191, 116, 97, 116, 117, 115, 10>>,  \* U+017F "tatus\n"
    <<255, 10>> }                              \* not UTF-8

(* --------------------------- bytes and str ---------------------------- *)
Min(a, b) == IF a < b THEN a ELSE b

\* bytes.endswith(b'\n')
EndsWithNewline(d) == Len(d) > 0 /\ d[Len(d)] = NL

\* b'\n' in d
ContainsNewline(d) == \E i \in 1..Len(d) : d[i] = NL

\* bytes.decode("utf-8"), strict: one- and two-byte forms; every other lead
\* byte the model's alphabet has (0x80..0xC1, 0xF5..0xFF) is rejected.
RECURSIVE Utf8Valid(_)
Utf8Valid(b) ==
  IF b = <<>> THEN TRUE
  ELSE IF b[1] < 128 THEN Utf8Valid(Tail(b))
  ELSE IF b[1] >= 194 /\ b[1] <= 223 /\ Len(b) >= 2 /\ b[2] >= 128 /\ b[2] <= 191
       THEN Utf8Valid(Tail(Tail(b)))
  ELSE FALSE

RECURSIVE Utf8Text(_)
Utf8Text(b) ==
  IF b = <<>> THEN <<>>
  ELSE IF b[1] < 128 THEN <<b[1]>> \o Utf8Text(Tail(b))
  ELSE <<(b[1] - 192) * 64 + (b[2] - 128)>> \o Utf8Text(Tail(Tail(b)))

\* str.encode("utf-8") for code points below U+0800
RECURSIVE Utf8Bytes(_)
Utf8Bytes(t) ==
  IF t = <<>> THEN <<>>
  ELSE IF t[1] < 128 THEN <<t[1]>> \o Utf8Bytes(Tail(t))
  ELSE <<192 + (t[1] \div 64), 128 + (t[1] % 64)>> \o Utf8Bytes(Tail(t))

\* str.isspace() of one character, for code points below U+0800
IsSpace(cp) == cp \in (9..13) \cup (28..32) \cup {133, 160}

\* str.strip()
RECURSIVE LStrip(_)
LStrip(t) == IF t # <<>> /\ IsSpace(t[1]) THEN LStrip(Tail(t)) ELSE t

RECURSIVE RStrip(_)
RStrip(t) ==
  IF t # <<>> /\ IsSpace(t[Len(t)]) THEN RStrip(SubSeq(t, 1, Len(t) - 1)) ELSE t

Strip(t) == RStrip(LStrip(t))

\* str.upper() of one character: ASCII letters and U+017F (long s); the other
\* code points of the model's alphabet have no upper-case mapping.
UpperChar(cp) ==
  IF cp >= 97 /\ cp <= 122 THEN cp - 32
  ELSE IF cp = 383 THEN 83
  ELSE cp

Upper(t) == [i \in 1..Len(t) |-> UpperChar(t[i])]

(* ---------------------------- fetch_usage ----------------------------- *)
\* What one run of curl leaves on stdout, by what json.loads and int make of it:
\*   curl_failed    Popen raises or the output is empty
\*   not_json       json.loads raises
\*   json_array     a JSON value without .get
\*   no_total_usage an object without the field: .get returns the default 0
\*   null, text     total_usage is null / a string that is no number
\*   int            total_usage is the integer n
\*   float          total_usage is the number n/10
\*   digits         total_usage is the string of the decimal digits of n
FailureKinds == {"curl_failed", "not_json", "json_array", "null", "text"}

Responses ==
  [kind : FailureKinds \cup {"no_total_usage"}, n : {0}]
    \cup [kind : {"int"}, n : (-1)..MaxAmount]
    \cup [kind : {"float"}, n : {-5, 15}]
    \cup [kind : {"digits"}, n : {1}]

\* int(x) of the float n/10: truncation toward zero
IntOfTenths(n) == IF n >= 0 THEN n \div 10 ELSE -((-n) \div 10)

\* try: ... return int(result.get("total_usage", 0)) / except Exception: return 0
fetch_usage(resp) ==
  CASE resp.kind \in FailureKinds -> 0
    [] resp.kind = "no_total_usage" -> 0
    [] resp.kind = "int" -> resp.n
    [] resp.kind = "float" -> IntOfTenths(resp.n)
    [] resp.kind = "digits" -> resp.n

(* A call of the module's name fetch_usage returns a value or raises. *)
Returned(v) == [raised |-> FALSE, value |-> v]
Raised == [raised |-> TRUE, value |-> 0]

\* What the tests bind to fetch_usage: a value, or a function that raises.
StubValues == ((-1)..MaxAmount) \cup {5, 100, 123}
StubOutcomes == {Returned(v) : v \in StubValues} \cup {Raised}

\* The curl outputs fetch_usage is tried on by itself.
ProbeResponses ==
  [kind : FailureKinds \cup {"no_total_usage"}, n : {0}]
    \cup [kind : {"int", "digits"}, n : (-MaxProbe)..MaxProbe]
    \cup [kind : {"float"}, n : (-10 * MaxProbe)..(10 * MaxProbe)]

(* ------------------------------- state -------------------------------- *)
VARIABLES
  pc,              \* where the process is
  cause,           \* the exception that ended the process, "none" while it runs
  clock,           \* the wall clock, in ticks
  backlog,         \* connections the kernel holds for accept(), oldest first
  nconn,           \* connections opened so far; connection ids are 1..nconn
  wire,            \* wire[c]: bytes client c wrote that the server has not received
  peer,            \* peer[c]: "open", "fin" (shut down), "rst" (reset), "gone"
  reply,           \* reply[c]: the bytes sendall wrote to c
  conn,            \* main: the accepted connection (0 before the first)
  open,            \* accepted connections that are not closed yet
  closed,          \* connections the server has closed
  data,            \* main: data
  eof,             \* main: the last recv returned b''
  command,         \* main: command
  result,          \* main: result
  check_ret,       \* the value check_recent_costs returned
  utc_today,       \* check_recent_costs: utc_today (-1 outside a call)
  utc_yesterday,   \* check_recent_costs: utc_yesterday (-1 outside a call)
  cost_today,      \* check_recent_costs: cost_today
  cost_yesterday,  \* check_recent_costs: cost_yesterday
  calls,           \* the fetch_usage calls of the current request
  patched,         \* fetch_usage is monkeypatched (the unit tests)
  stub,            \* the outcomes of the patched fetch_usage, call by call
  response,        \* the curl output of a fetch_usage call made by itself
  fetched          \* what that call returned

vars == <<pc, cause, clock, backlog, nconn, wire, peer, reply, conn, open,
          closed, data, eof, command, result, check_ret, utc_today,
          utc_yesterday, cost_today, cost_yesterday, calls, patched, stub,
          response, fetched>>

netVars == <<backlog, nconn, wire, peer>>
mainVars == <<conn, open, closed, data, eof, command, result, reply>>
costVars == <<check_ret, utc_today, utc_yesterday, cost_today, cost_yesterday,
              calls, clock>>
testVars == <<patched, stub, response, fetched>>

Conns == 1..MaxConns

\* datetime.strftime("%Y-%m-%d"): the UTC day the instant lies in
strftime(t) == t \div TicksPerDay

\* datetime - timedelta(days=1)
MinusOneDay(t) == t - TicksPerDay

InitCommon ==
  /\ cause = "none"
  /\ clock = 2 * TicksPerDay - 1     \* the last tick of a UTC day
  /\ backlog = <<>>
  /\ nconn = 0
  /\ wire = [c \in Conns |-> <<>>]
  /\ peer = [c \in Conns |-> "open"]
  /\ reply = [c \in Conns |-> <<>>]
  /\ conn = 0
  /\ open = {}
  /\ closed = {}
  /\ data = <<>>
  /\ eof = FALSE
  /\ command = <<>>
  /\ result = <<>>
  /\ check_ret = FALSE
  /\ utc_today = -1
  /\ utc_yesterday = -1
  /\ cost_today = 0
  /\ cost_yesterday = 0
  /\ calls = <<>>

\* The process as started from the command line.
Init ==
  /\ InitCommon
  /\ pc = "bind"
  /\ patched = FALSE
  /\ stub = <<Raised, Raised>>
  /\ response = [kind |-> "curl_failed", n |-> 0]
  /\ fetched = Raised

\* A unit test: fetch_usage is patched and check_recent_costs is called.
InitCosts ==
  /\ InitCommon
  /\ pc = "utc_today"
  /\ patched = TRUE
  /\ stub \in StubOutcomes \X StubOutcomes
  /\ response = [kind |-> "curl_failed", n |-> 0]
  /\ fetched = Raised

\* fetch_usage is called by itself, on one curl output.
InitFetch ==
  /\ InitCommon
  /\ pc = "fetch_usage"
  /\ patched = FALSE
  /\ stub = <<Raised, Raised>>
  /\ response \in ProbeResponses
  /\ fetched = Raised

(* ------------------------------ clients ------------------------------- *)
Running == pc \notin {"bind", "bind_failed", "crashed", "shutdown", "test_done"}

\* A client connects and writes its bytes; the kernel queues the connection.
Connect ==
  /\ Running
  /\ nconn < MaxConns
  /\ Len(backlog) < BACKLOG
  /\ \E msg \in Messages :
       /\ nconn' = nconn + 1
       /\ wire' = [wire EXCEPT ![nconn + 1] = msg]
       /\ backlog' = Append(backlog, nconn + 1)
  /\ UNCHANGED <<pc, cause, peer, mainVars, costVars, testVars>>

\* The client shuts down its sending side: the server reads EOF after the bytes.
ClientFin ==
  \E c \in 1..nconn :
    /\ c \notin closed
    /\ peer[c] = "open"
    /\ peer' = [peer EXCEPT ![c] = "fin"]
    /\ UNCHANGED <<pc, cause, backlog, nconn, wire, mainVars, costVars, testVars>>

\* The client resets the connection: unread bytes are dropped.
ClientReset ==
  \E c \in 1..nconn :
    /\ c \notin closed
    /\ peer[c] # "rst"
    /\ peer' = [peer EXCEPT ![c] = "rst"]
    /\ wire' = [wire EXCEPT ![c] = <<>>]
    /\ UNCHANGED <<pc, cause, backlog, nconn, mainVars, costVars, testVars>>

(* -------------------------------- main -------------------------------- *)
\* s.bind((HOST, PORT)); s.listen(5)
Bind ==
  /\ pc = "bind"
  /\ \/ pc' = "accept" /\ cause' = cause
     \/ pc' = "bind_failed" /\ cause' = "bind"
  /\ UNCHANGED <<netVars, mainVars, costVars, testVars>>

\* Mutant: the loop stops at the first newline anywhere in the buffer.
WhileCondAnyNewline(d) == ~ContainsNewline(d)

\* while not data.endswith(b'\n')
WhileCond(d) == ~EndsWithNewline(d)

\* the loop is left by its condition or by the break on an empty recv
AfterRecv(d) == IF WhileCond(d) THEN "recv" ELSE "decode"

\* Mutant: connections are accepted while another one is still being read.
AcceptReadyWhileReading == pc \in {"accept", "recv"}

\* the process accepts only at the top of the while True loop
AcceptReady == pc = "accept"

\* conn, addr = s.accept(); with conn: data = b''
Accept ==
  /\ AcceptReady
  /\ backlog # <<>>
  /\ conn' = Head(backlog)
  /\ backlog' = Tail(backlog)
  /\ open' = open \cup {Head(backlog)}
  /\ data' = <<>>
  /\ eof' = FALSE
  /\ calls' = <<>>
  /\ pc' = AfterRecv(<<>>)
  /\ UNCHANGED <<cause, nconn, wire, peer, closed, command, result, reply,
                 check_ret, utc_today, utc_yesterday, cost_today, cost_yesterday,
                 clock, testVars>>

\* Once the server has closed connections, their unread bytes are dropped and
\* their peers have nothing more to do with the process.
Dropped(gone) ==
  /\ wire' = [c \in Conns |-> IF c \in gone THEN <<>> ELSE wire[c]]
  /\ peer' = [c \in Conns |-> IF c \in gone THEN "gone" ELSE peer[c]]

\* An exception leaves the with block (the connection is closed) and main.
Crash(why) ==
  /\ pc' = "crashed"
  /\ cause' = why
  /\ open' = open \ {conn}
  /\ closed' = closed \cup {conn}
  /\ Dropped({conn})

\* more = conn.recv(1024); if not more: break; data += more
Recv ==
  /\ pc = "recv"
  /\ conn \in open
  /\ \/ /\ peer[conn] = "rst"                       \* ConnectionResetError
        /\ Crash("recv")
        /\ UNCHANGED <<backlog, nconn, conn, data, eof, command, result, reply,
                       costVars, testVars>>
     \/ /\ wire[conn] # <<>>
        /\ \E n \in 1..Min(Len(wire[conn]), BUFSIZE) :
             /\ data' = data \o SubSeq(wire[conn], 1, n)
             /\ wire' = [wire EXCEPT ![conn] = SubSeq(wire[conn], n + 1, Len(wire[conn]))]
             /\ pc' = AfterRecv(data')
        /\ UNCHANGED <<cause, backlog, nconn, peer, conn, open, closed, eof,
                       command, result, reply, costVars, testVars>>
     \/ /\ wire[conn] = <<>>
        /\ peer[conn] = "fin"                       \* more = b'': break
        /\ eof' = TRUE
        /\ pc' = "decode"
        /\ UNCHANGED <<cause, netVars, conn, open, closed, data, command, result,
                       reply, costVars, testVars>>

\* Mutant: the .upper() is missing.
ParseCommandNoUpper(d) == Strip(Utf8Text(d))

\* data.decode("utf-8").strip().upper()
ParseCommand(d) == Upper(Strip(Utf8Text(d)))

\* Mutant: command.startswith("STATUS")
IsStatusPrefix(cmd) == Len(cmd) >= Len(STATUS) /\ SubSeq(cmd, 1, Len(STATUS)) = STATUS

\* if command == "STATUS"
IsStatus(cmd) == cmd = STATUS

\* command = ...; if command == "STATUS": ... else: result = "ERR Unknown Command\n"
Decode ==
  /\ pc = "decode"
  /\ IF ~Utf8Valid(data)
     THEN /\ Crash("decode")                        \* UnicodeDecodeError
          /\ UNCHANGED <<command, result>>
     ELSE /\ command' = ParseCommand(data)
          /\ IF IsStatus(command')
             THEN pc' = "utc_today" /\ result' = result
             ELSE pc' = "sendall" /\ result' = ErrReply
          /\ UNCHANGED <<cause, open, closed, wire, peer>>
  /\ UNCHANGED <<backlog, nconn, conn, data, eof, reply, costVars, testVars>>

(* ------------------------- check_recent_costs ------------------------- *)
\* utc_today = datetime.datetime.utcnow().strftime("%Y-%m-%d")
UtcToday ==
  /\ pc = "utc_today"
  /\ \E t \in clock..MaxClock :
       /\ clock' = t
       /\ utc_today' = strftime(t)
  /\ pc' = "utc_yesterday"
  /\ UNCHANGED <<cause, netVars, mainVars, check_ret, utc_yesterday, cost_today,
                 cost_yesterday, calls, testVars>>

\* utc_yesterday = (datetime.datetime.utcnow() - timedelta(days=1)).strftime(...)
UtcYesterday ==
  /\ pc = "utc_yesterday"
  /\ \E t \in clock..MaxClock :
       /\ clock' = t
       /\ utc_yesterday' = strftime(MinusOneDay(t))
  /\ pc' = "fetch_today"
  /\ UNCHANGED <<cause, netVars, mainVars, check_ret, utc_today, cost_today,
                 cost_yesterday, calls, testVars>>

\* The outcomes the k-th fetch_usage call of a request can have.
FetchOutcomes(k) ==
  IF patched THEN {stub[k]} ELSE {Returned(fetch_usage(r)) : r \in Responses}

\* try: cost_today = fetch_usage(utc_today) / except Exception: cost_today = 0
ExceptToday(cy) == <<0, cy>>

\* Mutant: one try block around both fetches, so a failure zeroes both costs.
ExceptYesterdayZeroesBoth(ct) == <<0, 0>>

\* try: cost_yesterday = fetch_usage(utc_yesterday) / except Exception: cost_yesterday = 0
ExceptYesterday(ct) == <<ct, 0>>

FetchToday ==
  /\ pc = "fetch_today"
  /\ \E o \in FetchOutcomes(1) :
       /\ calls' = Append(calls, [date |-> utc_today, outcome |-> o])
       /\ LET costs == IF o.raised THEN ExceptToday(cost_yesterday)
                                    ELSE <<o.value, cost_yesterday>>
          IN cost_today' = costs[1] /\ cost_yesterday' = costs[2]
  /\ pc' = "fetch_yesterday"
  /\ UNCHANGED <<cause, netVars, mainVars, check_ret, utc_today, utc_yesterday,
                 clock, testVars>>

FetchYesterday ==
  /\ pc = "fetch_yesterday"
  /\ \E o \in FetchOutcomes(2) :
       /\ calls' = Append(calls, [date |-> utc_yesterday, outcome |-> o])
       /\ LET costs == IF o.raised THEN ExceptYesterday(cost_today)
                                    ELSE <<cost_today, o.value>>
          IN cost_today' = costs[1] /\ cost_yesterday' = costs[2]
  /\ pc' = "return"
  /\ UNCHANGED <<cause, netVars, mainVars, check_ret, utc_today, utc_yesterday,
                 clock, testVars>>

\* Mutant: >= in place of >
VerdictNonNegative(ct, cy) == (ct + cy) >= 0

\* (cost_today + cost_yesterday) > 0
Verdict(ct, cy) == (ct + cy) > 0

\* return ...: the frame and its locals are gone
Return ==
  /\ pc = "return"
  /\ check_ret' = Verdict(cost_today, cost_yesterday)
  /\ utc_today' = -1
  /\ utc_yesterday' = -1
  /\ cost_today' = 0
  /\ cost_yesterday' = 0
  /\ pc' = IF patched THEN "test_done" ELSE "result"
  /\ UNCHANGED <<cause, netVars, mainVars, calls, clock, testVars>>

(* --------------------------- main, continued -------------------------- *)
\* Mutant: the verdict of an earlier request is reused.
StatusResultCached ==
  IF result \in {TrueReply, FalseReply} THEN result
  ELSE IF check_ret THEN TrueReply ELSE FalseReply

\* "TRUE\n" if check_recent_costs() else "FALSE\n"
StatusResult == IF check_ret THEN TrueReply ELSE FalseReply

Result ==
  /\ pc = "result"
  /\ result' = StatusResult
  /\ pc' = "sendall"
  /\ UNCHANGED <<cause, netVars, conn, open, closed, data, eof, command, reply,
                 costVars, testVars>>

\* Mutant: keep-alive, the connection is read again after the reply.
AfterSendallKeepAlive == [pc |-> "recv", open |-> open, closed |-> closed]

\* The with block ends: the connection is closed and the loop accepts again.
AfterSendall == [pc |-> "accept", open |-> open \ {conn}, closed |-> closed \cup {conn}]

\* conn.sendall(result.encode("utf-8"))
Sendall ==
  /\ pc = "sendall"
  /\ \/ /\ reply' = [reply EXCEPT ![conn] = @ \o Utf8Bytes(result)]
        /\ pc' = AfterSendall.pc
        /\ open' = AfterSendall.open
        /\ closed' = AfterSendall.closed
        /\ Dropped(AfterSendall.closed)
        /\ cause' = cause
     \/ /\ peer[conn] = "rst"                       \* BrokenPipeError, ConnectionResetError
        /\ Crash("sendall")
        /\ reply' = reply
  /\ calls' = <<>>                                  \* the request is over
  /\ UNCHANGED <<backlog, nconn, conn, data, eof, command, result, check_ret, utc_today,
                 utc_yesterday, cost_today, cost_yesterday, clock, testVars>>

\* except KeyboardInterrupt: print("\nShutting down."); sys.exit(0)
\* The process ends: its sockets are closed and its variables are gone.
Interrupt ==
  /\ pc \notin {"bind_failed", "crashed", "shutdown", "test_done"}
  /\ pc' = "shutdown"
  /\ open' = {}
  /\ closed' = closed \cup open
  /\ Dropped(open)
  /\ conn' = 0
  /\ data' = <<>>
  /\ eof' = FALSE
  /\ command' = <<>>
  /\ result' = <<>>
  /\ check_ret' = FALSE
  /\ utc_today' = -1
  /\ utc_yesterday' = -1
  /\ cost_today' = 0
  /\ cost_yesterday' = 0
  /\ calls' = <<>>
  /\ UNCHANGED <<cause, backlog, nconn, reply, clock, testVars>>

Next ==
  \/ Connect \/ ClientFin \/ ClientReset
  \/ Bind \/ Accept \/ Recv \/ Decode
  \/ UtcToday \/ UtcYesterday \/ FetchToday \/ FetchYesterday \/ Return
  \/ Result \/ Sendall \/ Interrupt

Spec == Init /\ [][Next]_vars

NextCosts == UtcToday \/ UtcYesterday \/ FetchToday \/ FetchYesterday \/ Return

SpecCosts == InitCosts /\ [][NextCosts]_vars

\* output, _ = curl.communicate(); ...; return int(...) / return 0
FetchUsage ==
  /\ pc = "fetch_usage"
  /\ fetched' = Returned(fetch_usage(response))
  /\ pc' = "fetched"
  /\ UNCHANGED <<cause, netVars, mainVars, costVars, patched, stub, response>>

NextFetch == FetchUsage

SpecFetch == InitFetch /\ [][NextFetch]_vars

(* ======================= properties of the code ======================= *)
Replies == {TrueReply, FalseReply, ErrReply}

StatusLineUpper == <<83, 84, 65, 84, 85, 83, 10>>          \* "STATUS\n"
StatusLineLower == <<115, 116, 97, 116, 117, 115, 10>>     \* "status\n"
StatusLineThenX == <<83, 84, 65, 84, 85, 83, 10, 88>>      \* "STATUS\nX"
PingLine == <<80, 73, 78, 71, 10>>                         \* "PING\n"

\* What one fetch contributes to the sum: its amount, 0 when it raised.
Contribution(o) == IF o.raised THEN 0 ELSE o.value

\* C1: when the two fetches return non-negative a (today) and b (yesterday),
\* check_recent_costs returns TRUE exactly when a + b > 0: FALSE for a = b = 0,
\* TRUE for a = 123 whatever b is.
C1_VerdictIsPositiveSum ==
  ( /\ pc = "test_done"
    /\ ~stub[1].raised /\ ~stub[2].raised
    /\ stub[1].value >= 0 /\ stub[2].value >= 0 )
  => /\ check_ret = (stub[1].value + stub[2].value > 0)
     /\ (stub[1].value = 0 /\ stub[2].value = 0 => check_ret = FALSE)
     /\ (stub[1].value = 123 => check_ret = TRUE)

C1_Witness ==
  /\ pc = "test_done"
  /\ stub = <<Returned(123), Returned(0)>>
  /\ check_ret = TRUE

\* C2: a fetch that raises contributes 0 and the other date's amount alone
\* decides the verdict (today raises, yesterday = 5: TRUE); when both raise
\* the call still returns, and returns FALSE.
C2_FailuresIsolated ==
  /\ pc \in {"utc_today", "utc_yesterday", "fetch_today", "fetch_yesterday",
             "return", "test_done"}
  /\ (pc = "test_done" /\ (stub[1].raised \/ stub[2].raised))
       => /\ check_ret = (Contribution(stub[1]) + Contribution(stub[2]) > 0)
          /\ (stub[1].raised /\ stub[2] = Returned(5) => check_ret = TRUE)
          /\ (stub[2].raised /\ stub[1] = Returned(5) => check_ret = TRUE)
          /\ (stub[1].raised /\ stub[2].raised => check_ret = FALSE)

C2_Witness ==
  /\ pc = "test_done"
  /\ stub = <<Raised, Returned(5)>>
  /\ check_ret = TRUE

\* C3: a received line that is STATUS after trimming and uppercasing
\* ("STATUS\n" and "status\n" alike) is answered with exactly "TRUE\n" when
\* the verdict is true and exactly "FALSE\n" otherwise.
C3_StatusReply ==
  /\ (pc \in {"utc_today", "sendall", "accept"} /\ conn # 0
        /\ data \in {StatusLineUpper, StatusLineLower})
       => command = STATUS
  /\ (pc = "sendall" /\ command = STATUS)
       => result = (IF check_ret THEN TrueReply ELSE FalseReply)
  /\ (pc = "accept" /\ conn # 0 /\ command = STATUS)
       => reply[conn] = (IF check_ret THEN TrueReply ELSE FalseReply)

C3_Witness ==
  /\ pc = "accept"
  /\ data = StatusLineLower
  /\ check_ret = TRUE
  /\ reply[conn] = TrueReply

\* C4: a received buffer whose trimmed, uppercased text is not STATUS ("PING\n",
\* an empty line, nothing at all before the peer closed) is answered with
\* exactly "ERR Unknown Command\n".
C4_UnknownCommandReply ==
  /\ (pc \in {"sendall", "accept"} /\ conn # 0 /\ data \in {PingLine, <<NL>>, <<>>})
       => command # STATUS
  /\ (pc = "sendall" /\ command # STATUS) => result = ErrReply
  /\ (pc = "accept" /\ conn # 0 /\ command # STATUS) => reply[conn] = ErrReply

C4_Witness ==
  /\ pc = "accept"
  /\ conn # 0
  /\ data = <<>>
  /\ eof
  /\ reply[conn] = ErrReply

\* C5 (as claimed): after a failure of recv or sendall on a client socket the
\* process is still running its accept loop; it is not ended by the failure.
C5_SocketFailureNotFatal == cause \in {"recv", "sendall"} => pc # "crashed"

\* C6 (as claimed): every connection whose handling ended without a socket
\* failure was sent exactly one reply, one of the three reply lines, whatever
\* bytes the client sent.
C6_AlwaysOneWellFormedReply ==
  (pc \in {"accept", "crashed"} /\ conn \in closed /\ cause \notin {"recv", "sendall"})
    => reply[conn] \in Replies

\* C7: at most one connection is being serviced at any instant, and a
\* connection is accepted only after every connection that arrived before it
\* has been closed.
C7_OneConnectionAtATime ==
  /\ Cardinality(open) <= 1
  /\ open # {} => open = {conn}
  /\ (pc \in {"recv", "decode", "utc_today", "utc_yesterday", "fetch_today",
              "fetch_yesterday", "return", "result", "sendall"}) => open = {conn}
  /\ \A c \in open : \A b \in 1..(c - 1) : b \in closed
  /\ \A i \in 1..Len(backlog) : backlog[i] \notin open \cup closed

C7_Witness ==
  /\ pc = "fetch_yesterday"
  /\ open = {1}
  /\ backlog = <<2>>
  /\ wire[2] = StatusLineUpper

\* The state of a connection in the listener's state machine.
Phase(c) ==
  IF c \in closed THEN "Closed"
  ELSE IF c \notin open THEN "Idle"
  ELSE IF c # conn THEN "Reading"
  ELSE CASE pc \in {"accept", "recv"} -> "Reading"
         [] pc = "sendall" -> "Responding"
         [] OTHER -> "Dispatching"

Rank(ph) ==
  CASE ph = "Idle" -> 0
    [] ph = "Reading" -> 1
    [] ph = "Dispatching" -> 2
    [] ph = "Responding" -> 3
    [] ph = "Closed" -> 4

C8_Step ==
  /\ \A c \in Conns :
       /\ Rank(Phase(c))' >= Rank(Phase(c))
       /\ reply[c]' \in {<<>>} \cup Replies
       /\ reply[c]' # reply[c] =>
            /\ reply[c] = <<>>
            /\ Phase(c) = "Responding"
            /\ Phase(c)' = "Closed"
       /\ (Phase(c) = "Reading" /\ Phase(c)' = "Dispatching") => pc' = "decode"
       /\ (Phase(c) # "Closed" /\ Phase(c)' = "Closed" /\ pc' = "crashed") =>
            reply[c]' = <<>>
  /\ (pc' = "decode" /\ pc # "decode") => pc \in {"accept", "recv"}

C9_TwoFreshCallsPerStatus ==
  /\ pc \in {"recv", "decode", "utc_today", "utc_yesterday", "fetch_today"}
       => calls = <<>>
  /\ pc = "fetch_yesterday" => Len(calls) = 1
  /\ pc = "return" =>
       /\ Len(calls) = 2
       /\ calls[1].date = utc_today
       /\ calls[2].date = utc_yesterday
  /\ (pc = "sendall" /\ command = STATUS) =>
       /\ Len(calls) = 2
       /\ result = (IF Contribution(calls[1].outcome) + Contribution(calls[2].outcome) > 0
                    THEN TrueReply ELSE FalseReply)
  /\ (pc = "sendall" /\ command # STATUS) => calls = <<>>

C9_Witness ==
  /\ pc = "sendall"
  /\ conn = 2
  /\ command = STATUS
  /\ result = FalseReply
  /\ reply[1] = TrueReply

\* C10 (as claimed): no recv is issued once the buffer holds a newline byte.
C10_NoRecvAfterAnyNewline == pc = "recv" => ~ContainsNewline(data)

\* C10 (amended): a recv is issued exactly while the accumulated buffer does
\* not end with a newline byte and the peer has not closed; a newline that is
\* not the last byte received ("STATUS\nX") does not stop the reading, and the
\* buffer is dispatched only when it ends with "\n" or at EOF.
C10_ReadsUntilTrailingNewline ==
  /\ pc = "recv" => (~EndsWithNewline(data) /\ ~eof)
  /\ pc = "decode" => (EndsWithNewline(data) \/ eof)

C10_Witness ==
  /\ pc = "recv"
  /\ data = StatusLineThenX

\* C11 (as claimed): in every call of check_recent_costs the second date
\* queried is exactly one day before the first, also when UTC midnight passes
\* during the call; the two dates are never equal.
C11_DatesAreConsecutiveDays ==
  pc \in {"fetch_today", "fetch_yesterday", "return"} =>
    /\ utc_yesterday = utc_today - 1
    /\ utc_yesterday # utc_today

\* C12 (as claimed): fetch_usage returns a non-negative integer for every
\* upstream response and never raises; a failure yields 0.
C12_NeverNegative ==
  pc = "fetched" =>
    /\ ~fetched.raised
    /\ fetched.value >= 0
    /\ response.kind \in FailureKinds \cup {"no_total_usage"} => fetched.value = 0

=============================================================================
